---- MODULE Spec2Model ----
(***************************************************************************)
(* A model of the value layer of dicescript (types.go): the tagged VMValue, *)
(* the shared ArrayData / ComputedData / FunctionData objects behind it,    *)
(* the array, slice and attribute operations, the division operator and the *)
(* sub-evaluation protocol of ComputedExecute / FuncInvoke.                 *)
(*                                                                         *)
(* Go pointers are modelled as indices: arrays[k] is the k-th *ArrayData,   *)
(* computeds[k] the k-th *ComputedData, functions[k] the k-th *FunctionData *)
(* and vals[h] the h-th *VMValue the host holds.  A VMValue is a record     *)
(* (hist and call are history variables: what was cloned from what, and    *)
(* the last call with its arguments, prior state and results.)             *)
(* [TypeId, Value]; for the container kinds Value is the index of the       *)
(* shared object, for String it is the sequence of bytes.                   *)
(***************************************************************************)
EXTENDS Integers, Sequences, FiniteSets, TLC

VARIABLES vals, arrays, computeds, functions, ctxs, hist, call

vars == <<vals, arrays, computeds, functions, ctxs, hist, call>>

-----------------------------------------------------------------------------
(* VMValueType *)

VMTypeInt == 0
VMTypeFloat == 1
VMTypeString == 2
VMTypeUndefined == 3
VMTypeNull == 4
VMTypeComputedValue == 5
VMTypeArray == 6
VMTypeFunction == 8
VMTypeNativeFunction == 9

(* The limit on the length of a created array (OpAdd, ArrayRepeatTimesEx). *)
ArrayLimit == 512

(* The nil *VMValue, and the nil error. *)
nil == [TypeId |-> -1, Value |-> <<>>]

NoError == "nil"

(* errors.New(...) of each call site *)
ErrArrayTooLong == "array too long"
ErrDivideZero == "divide by zero"
ErrGetIndex == "cannot get this index"
ErrNotIndexable == "type cannot be indexed"
ErrNotSliceable == "type cannot be sliced"
ErrFirstIndexType == "first index has the wrong type"
ErrSecondIndexType == "second index has the wrong type"
ErrSetSliceType == "type cannot be slice-assigned"
ErrSetSliceValue == "val must be a list"
ErrArity == "argument count differs from the definition"

(* Errors of the parser and of the host's native functions. *)
ErrParse == "parse error"
ErrNative == "native function failed"

-----------------------------------------------------------------------------
(* Constructors *)

VMValueNewInt(i) == [TypeId |-> VMTypeInt, Value |-> i]

VMValueNewFloat(f) == [TypeId |-> VMTypeFloat, Value |-> f]

VMValueNewStr(s) == [TypeId |-> VMTypeString, Value |-> s]

VMValueNewUndefined == [TypeId |-> VMTypeUndefined, Value |-> <<>>]

VMValueNewNull == [TypeId |-> VMTypeNull, Value |-> <<>>]

(* Allocates a new ArrayData holding a copy of the list. *)
VMValueNewArray(arrs, list) ==
    [val |-> [TypeId |-> VMTypeArray, Value |-> Len(arrs) + 1],
     arrays |-> Append(arrs, list)]

(* What an operation hands back: the returned *VMValue (nil when the       *)
(* operation returns a bool), the returned bool, the context and the heap  *)
(* of ArrayData as the operation leaves them.                              *)
Res(ret, ok, ctx, arrs) ==
    [ret |-> ret, ok |-> ok, ctx |-> ctx, arrays |-> arrs, panic |-> FALSE]

(* A Go runtime panic: the call does not return. *)
Panic(ctx, arrs) ==
    [ret |-> nil, ok |-> FALSE, ctx |-> ctx, arrays |-> arrs, panic |-> TRUE]

SetError(ctx, err) == [ctx EXCEPT !.Error = err]

-----------------------------------------------------------------------------
(* Indices *)

(* A variant that clamps a negative index without adding the length first. *)
getClampRealIndexNoWrap(index, length) ==
    LET i2 == IF index < 0 THEN 0 ELSE index
    IN  IF i2 > length THEN length ELSE i2

getClampRealIndex(index, length) ==
    LET i1 == IF index < 0 THEN length + index ELSE index
        i2 == IF i1 < 0 THEN 0 ELSE i1
    IN  IF i2 > length THEN length ELSE i2

(* A variant that adds the length a second time to an index that is still  *)
(* negative.                                                                *)
getRealIndexWrapTwice(ctx, index, length) ==
    LET i1 == IF index < 0 THEN length + index ELSE index
        i2 == IF i1 < 0 THEN length + i1 ELSE i1
    IN  [index |-> i2,
         ctx |-> IF i2 >= length \/ i2 < 0 THEN SetError(ctx, ErrGetIndex) ELSE ctx]

getRealIndex(ctx, index, length) ==
    LET i1 == IF index < 0 THEN length + index ELSE index
    IN  [index |-> i1,
         ctx |-> IF i1 >= length \/ i1 < 0 THEN SetError(ctx, ErrGetIndex) ELSE ctx]

Length(ctx, arrs, v) ==
    CASE v.TypeId = VMTypeArray -> [length |-> Len(arrs[v.Value]), ctx |-> ctx]
      [] v.TypeId = VMTypeString -> [length |-> Len(v.Value), ctx |-> ctx]
      [] OTHER -> [length |-> 0, ctx |-> SetError(ctx, ErrNotSliceable)]

-----------------------------------------------------------------------------
(* Slices *)

GetSlice(ctx, arrs, v, a, b) ==
    LET l == Length(ctx, arrs, v)
    IN  IF l.ctx.Error # NoError
        THEN Res(nil, FALSE, l.ctx, arrs)
        ELSE LET rb == getClampRealIndex(b, l.length)
                 ra0 == getClampRealIndex(a, l.length)
                 ra == IF ra0 > rb THEN rb ELSE ra0
             IN  CASE v.TypeId = VMTypeString ->
                        Res(VMValueNewStr(SubSeq(v.Value, ra + 1, rb)), FALSE, l.ctx, arrs)
                   [] v.TypeId = VMTypeArray ->
                        LET n == VMValueNewArray(arrs, SubSeq(arrs[v.Value], ra + 1, rb))
                        IN  Res(n.val, FALSE, l.ctx, n.arrays)
                   [] OTHER -> Res(nil, FALSE, SetError(l.ctx, ErrNotSliceable), arrs)

GetSliceEx(ctx, arrs, v, a, b) ==
    LET a1 == IF a.TypeId = VMTypeUndefined THEN VMValueNewInt(0) ELSE a
        l == Length(ctx, arrs, v)
    IN  IF l.ctx.Error # NoError
        THEN Res(nil, FALSE, l.ctx, arrs)
        ELSE LET b1 == IF b.TypeId = VMTypeUndefined THEN VMValueNewInt(l.length) ELSE b
             IN  IF a1.TypeId # VMTypeInt
                 THEN Res(nil, FALSE, SetError(l.ctx, ErrFirstIndexType), arrs)
                 ELSE IF b1.TypeId # VMTypeInt
                 THEN Res(nil, FALSE, SetError(l.ctx, ErrSecondIndexType), arrs)
                 ELSE GetSlice(l.ctx, arrs, v, a1.Value, b1.Value)

(* A variant whose last loop copies the tail from the unshifted position. *)
SetSliceTailUnshifted(ctx, arrs, v, a, b, val) ==
    IF v.TypeId # VMTypeArray
    THEN Res(nil, FALSE, SetError(ctx, ErrSetSliceType), arrs)
    ELSE IF val.TypeId # VMTypeArray
    THEN Res(nil, FALSE, SetError(ctx, ErrSetSliceValue), arrs)
    ELSE LET arr == arrs[v.Value]
             arr2 == arrs[val.Value]
             length == Len(arr)
             rb == getClampRealIndex(b, length)
             ra0 == getClampRealIndex(a, length)
             ra == IF ra0 > rb THEN rb ELSE ra0
             offset == Len(arr2) - (rb - ra)
             newArr == [i \in 1..(Len(arr) + offset) |->
                          IF i <= ra THEN arr[i]
                          ELSE IF i <= ra + Len(arr2) THEN arr2[i - ra]
                          ELSE arr[IF i <= Len(arr) THEN i ELSE Len(arr)]]
         IN  Res(nil, TRUE, ctx, [arrs EXCEPT ![v.Value] = newArr])

SetSlice(ctx, arrs, v, a, b, val) ==
    IF v.TypeId # VMTypeArray
    THEN Res(nil, FALSE, SetError(ctx, ErrSetSliceType), arrs)
    ELSE IF val.TypeId # VMTypeArray
    THEN Res(nil, FALSE, SetError(ctx, ErrSetSliceValue), arrs)
    ELSE LET arr == arrs[v.Value]
             arr2 == arrs[val.Value]
             length == Len(arr)
             rb == getClampRealIndex(b, length)
             ra0 == getClampRealIndex(a, length)
             ra == IF ra0 > rb THEN rb ELSE ra0
             offset == Len(arr2) - (rb - ra)
             newArr == [i \in 1..(Len(arr) + offset) |->
                          IF i <= ra THEN arr[i]
                          ELSE IF i <= ra + Len(arr2) THEN arr2[i - ra]
                          ELSE arr[i - offset]]
         IN  Res(nil, TRUE, ctx, [arrs EXCEPT ![v.Value] = newArr])

SetSliceEx(ctx, arrs, v, a, b, val) ==
    LET a1 == IF a.TypeId = VMTypeUndefined THEN VMValueNewInt(0) ELSE a
    IN  IF v.TypeId # VMTypeArray
        THEN Res(nil, FALSE, SetError(ctx, ErrSetSliceType), arrs)
        ELSE LET b1 == IF b.TypeId = VMTypeUndefined
                       THEN VMValueNewInt(Len(arrs[v.Value])) ELSE b
             IN  IF a1.TypeId # VMTypeInt
                 THEN Res(nil, FALSE, SetError(ctx, ErrFirstIndexType), arrs)
                 ELSE IF b1.TypeId # VMTypeInt
                 THEN Res(nil, FALSE, SetError(ctx, ErrSecondIndexType), arrs)
                 ELSE SetSlice(ctx, arrs, v, a1.Value, b1.Value, val)

-----------------------------------------------------------------------------
(* Clone and element access *)

Clone(v) == [TypeId |-> v.TypeId, Value |-> v.Value]

ArrayGetItem(ctx, arrs, v, index) ==
    IF v.TypeId = VMTypeArray
    THEN LET r == getRealIndex(ctx, index, Len(arrs[v.Value]))
         IN  IF r.ctx.Error # NoError
             THEN Res(nil, FALSE, r.ctx, arrs)
             ELSE Res(arrs[v.Value][r.index + 1], FALSE, r.ctx, arrs)
    ELSE Res(nil, FALSE, SetError(ctx, ErrNotIndexable), arrs)

ArraySetItem(ctx, arrs, v, index, val) ==
    IF v.TypeId = VMTypeArray
    THEN LET r == getRealIndex(ctx, index, Len(arrs[v.Value]))
         IN  IF r.ctx.Error # NoError
             THEN Res(nil, FALSE, r.ctx, arrs)
             ELSE Res(nil, TRUE, r.ctx,
                      [arrs EXCEPT ![v.Value][r.index + 1] = Clone(val)])
    ELSE Res(nil, FALSE, SetError(ctx, ErrNotIndexable), arrs)

-----------------------------------------------------------------------------
(* Attributes.  A ValueMap is an insertion-ordered list of entries; a nil   *)
(* *ValueMap has present = FALSE.                                          *)

NilMap == [present |-> FALSE, entries |-> <<>>]

NewValueMap == [present |-> TRUE, entries |-> <<>>]

MapGet(m, name) ==
    IF \E i \in DOMAIN m.entries : m.entries[i].key = name
    THEN m.entries[CHOOSE i \in DOMAIN m.entries : m.entries[i].key = name].val
    ELSE nil

MapPut(m, name, val) ==
    IF \E i \in DOMAIN m.entries : m.entries[i].key = name
    THEN [m EXCEPT !.entries[CHOOSE i \in DOMAIN m.entries : m.entries[i].key = name].val = val]
    ELSE [m EXCEPT !.entries = Append(@, [key |-> name, val |-> val])]

(* SetAttr: the returned value and the heap of ComputedData afterwards. *)
SetAttr(cds, v, name, val) ==
    IF v.TypeId = VMTypeComputedValue
    THEN LET cd == cds[v.Value]
             attrs == IF cd.Attrs.present THEN cd.Attrs ELSE NewValueMap
         IN  [ret |-> val,
              computeds |-> [cds EXCEPT ![v.Value].Attrs = MapPut(attrs, name, Clone(val))]]
    ELSE [ret |-> nil, computeds |-> cds]

GetAttr(ctx, cds, v, name) ==
    CASE v.TypeId = VMTypeComputedValue ->
           LET cd == cds[v.Value]
               ret == IF cd.Attrs.present THEN MapGet(cd.Attrs, name) ELSE nil
           IN  IF ret = nil THEN VMValueNewUndefined ELSE ret
      [] v.TypeId = VMTypeFunction ->
           LET ret == IF ctx.attrs.present THEN MapGet(ctx.attrs, name) ELSE nil
           IN  IF ret = nil THEN VMValueNewUndefined ELSE ret
      [] OTHER -> nil

-----------------------------------------------------------------------------
(* Arithmetic.  A float64 is modelled as a reduced fraction <<n, d>>, d > 0; *)
(* the two IEEE zeros are the one fraction <<0, 1>> (they compare equal to  *)
(* 0 in Go), and rounding of the quotient to binary64 is not modelled.      *)

Abs(x) == IF x < 0 THEN -x ELSE x

RECURSIVE Gcd(_, _)
Gcd(a, b) == IF b = 0 THEN a ELSE Gcd(b, a % b)

Frac(n, d) ==
    LET g == Gcd(Abs(n), Abs(d))
        s == IF d < 0 THEN -1 ELSE 1
    IN  <<(s * n) \div g, (s * d) \div g>>

IntToFloat(i) == <<i, 1>>

FloatIsZero(f) == f[1] = 0

FloatAdd(f, g) == Frac(f[1] * g[2] + g[1] * f[2], f[2] * g[2])

FloatMul(f, g) == Frac(f[1] * g[1], f[2] * g[2])

FloatDiv(f, g) == Frac(f[1] * g[2], f[2] * g[1])

(* Go's integer division truncates toward zero. *)
IntDiv(a, b) ==
    LET q == Abs(a) \div Abs(b)
    IN  IF (a < 0) = (b < 0) THEN q ELSE -q

OpAdd(ctx, arrs, v, v2) ==
    CASE v.TypeId = VMTypeInt /\ v2.TypeId = VMTypeInt ->
           Res(VMValueNewInt(v.Value + v2.Value), FALSE, ctx, arrs)
      [] v.TypeId = VMTypeInt /\ v2.TypeId = VMTypeFloat ->
           Res(VMValueNewFloat(FloatAdd(IntToFloat(v.Value), v2.Value)), FALSE, ctx, arrs)
      [] v.TypeId = VMTypeFloat /\ v2.TypeId = VMTypeInt ->
           Res(VMValueNewFloat(FloatAdd(v.Value, IntToFloat(v2.Value))), FALSE, ctx, arrs)
      [] v.TypeId = VMTypeFloat /\ v2.TypeId = VMTypeFloat ->
           Res(VMValueNewFloat(FloatAdd(v.Value, v2.Value)), FALSE, ctx, arrs)
      [] v.TypeId = VMTypeString /\ v2.TypeId = VMTypeString ->
           Res(VMValueNewStr(v.Value \o v2.Value), FALSE, ctx, arrs)
      [] v.TypeId = VMTypeArray /\ v2.TypeId = VMTypeArray ->
           LET arr == arrs[v.Value]
               arr2 == arrs[v2.Value]
               length == Len(arr) + Len(arr2)
           IN  IF length > ArrayLimit
               THEN Res(nil, FALSE, SetError(ctx, ErrArrayTooLong), arrs)
               ELSE LET n == VMValueNewArray(arrs, arr \o arr2)
                    IN  Res(n.val, FALSE, ctx, n.arrays)
      [] OTHER -> Res(nil, FALSE, ctx, arrs)

(* int64 arithmetic.  An int64 that the arithmetic of the model cannot     *)
(* hold is written as its 64-bit two's complement pattern in four 16-bit    *)
(* limbs, least significant first.                                          *)
Limb == 65536

WideInt(limbs) == [TypeId |-> VMTypeInt, Limbs |-> limbs]

IsWide(v) == "Limbs" \in DOMAIN v

ToLimbs(x) ==
    IF x >= 0
    THEN <<x % Limb, x \div Limb, 0, 0>>
    ELSE LET y == (0 - x) - 1
         IN  <<(Limb - 1) - (y % Limb), (Limb - 1) - (y \div Limb), Limb - 1, Limb - 1>>

ReadInt(v) == IF IsWide(v) THEN v.Limbs ELSE ToLimbs(v.Value)

(* int64(n) * k for 0 <= n < Limb: the product modulo 2^64. *)
MulInt64(n, k) ==
    LET p1 == n * k[1]
        p2 == n * k[2] + (p1 \div Limb)
        p3 == n * k[3] + (p2 \div Limb)
        p4 == n * k[4] + (p3 \div Limb)
    IN  <<p1 % Limb, p2 % Limb, p3 % Limb, p4 % Limb>>

Int64Negative(l) == l[4] >= Limb \div 2

(* l > c as int64, for 0 <= c < Limb. *)
Int64Above(l, c) ==
    /\ ~Int64Negative(l)
    /\ (l[4] # 0 \/ l[3] # 0 \/ l[2] # 0 \/ l[1] > c)

ArrayRepeatTimesEx(ctx, arrs, v, times) ==
    IF times.TypeId = VMTypeInt
    THEN LET ad == arrs[v.Value]
             length == MulInt64(Len(ad), ReadInt(times))
         IN  IF Int64Above(length, ArrayLimit)
             THEN Res(nil, FALSE, SetError(ctx, ErrArrayTooLong), arrs)
             ELSE IF Int64Negative(length)
             THEN Panic(ctx, arrs)
             ELSE LET n == VMValueNewArray(arrs,
                             [i \in 1..length[1] |-> Clone(ad[((i - 1) % Len(ad)) + 1])])
                  IN  Res(n.val, FALSE, ctx, n.arrays)
    ELSE Res(nil, FALSE, ctx, arrs)

OpMultiply(ctx, arrs, v, v2) ==
    CASE v.TypeId = VMTypeInt /\ v2.TypeId = VMTypeInt ->
           Res(VMValueNewInt(v.Value * v2.Value), FALSE, ctx, arrs)
      [] v.TypeId = VMTypeInt /\ v2.TypeId = VMTypeFloat ->
           Res(VMValueNewFloat(FloatMul(IntToFloat(v.Value), v2.Value)), FALSE, ctx, arrs)
      [] v.TypeId = VMTypeInt /\ v2.TypeId = VMTypeArray ->
           ArrayRepeatTimesEx(ctx, arrs, v2, v)
      [] v.TypeId = VMTypeFloat /\ v2.TypeId = VMTypeInt ->
           Res(VMValueNewFloat(FloatMul(v.Value, IntToFloat(v2.Value))), FALSE, ctx, arrs)
      [] v.TypeId = VMTypeFloat /\ v2.TypeId = VMTypeFloat ->
           Res(VMValueNewFloat(FloatMul(v.Value, v2.Value)), FALSE, ctx, arrs)
      [] v.TypeId = VMTypeArray ->
           ArrayRepeatTimesEx(ctx, arrs, v, v2)
      [] OTHER -> Res(nil, FALSE, ctx, arrs)

OpDivide(ctx, arrs, v, v2) ==
    LET setDivideZero == SetError(ctx, ErrDivideZero)
    IN  CASE v.TypeId = VMTypeInt /\ v2.TypeId = VMTypeInt ->
               IF v2.Value = 0
               THEN Res(nil, FALSE, setDivideZero, arrs)
               ELSE Res(VMValueNewInt(IntDiv(v.Value, v2.Value)), FALSE, ctx, arrs)
          [] v.TypeId = VMTypeInt /\ v2.TypeId = VMTypeFloat ->
               IF FloatIsZero(v2.Value)
               THEN Res(nil, FALSE, setDivideZero, arrs)
               ELSE Res(VMValueNewFloat(FloatDiv(IntToFloat(v.Value), v2.Value)),
                        FALSE, ctx, arrs)
          [] v.TypeId = VMTypeFloat /\ v2.TypeId = VMTypeInt ->
               IF v2.Value = 0
               THEN Res(nil, FALSE, setDivideZero, arrs)
               ELSE Res(VMValueNewFloat(FloatDiv(v.Value, IntToFloat(v2.Value))),
                        FALSE, ctx, arrs)
          [] v.TypeId = VMTypeFloat /\ v2.TypeId = VMTypeFloat ->
               IF FloatIsZero(v2.Value)
               THEN Res(nil, FALSE, setDivideZero, arrs)
               ELSE Res(VMValueNewFloat(FloatDiv(v.Value, v2.Value)), FALSE, ctx, arrs)
          [] OTHER -> Res(nil, FALSE, ctx, arrs)

FloatSub(f, g) == Frac(f[1] * g[2] - g[1] * f[2], f[2] * g[2])

FloatLess(f, g) == f[1] * g[2] < g[1] * f[2]

OpSub(ctx, arrs, v, v2) ==
    CASE v.TypeId = VMTypeInt /\ v2.TypeId = VMTypeInt ->
           Res(VMValueNewInt(v.Value - v2.Value), FALSE, ctx, arrs)
      [] v.TypeId = VMTypeInt /\ v2.TypeId = VMTypeFloat ->
           Res(VMValueNewFloat(FloatSub(IntToFloat(v.Value), v2.Value)), FALSE, ctx, arrs)
      [] v.TypeId = VMTypeFloat /\ v2.TypeId = VMTypeInt ->
           Res(VMValueNewFloat(FloatSub(v.Value, IntToFloat(v2.Value))), FALSE, ctx, arrs)
      [] v.TypeId = VMTypeFloat /\ v2.TypeId = VMTypeFloat ->
           Res(VMValueNewFloat(FloatSub(v.Value, v2.Value)), FALSE, ctx, arrs)
      [] OTHER -> Res(nil, FALSE, ctx, arrs)

(* Go's % panics on a zero divisor; the remainder has the sign of the      *)
(* dividend.                                                                *)
OpModulus(ctx, arrs, v, v2) ==
    IF v.TypeId = VMTypeInt /\ v2.TypeId = VMTypeInt
    THEN IF v2.Value = 0
         THEN Panic(ctx, arrs)
         ELSE Res(VMValueNewInt(v.Value - IntDiv(v.Value, v2.Value) * v2.Value),
                  FALSE, ctx, arrs)
    ELSE Res(nil, FALSE, ctx, arrs)

(* +Inf as a float. *)
FloatInf == <<1, 0>>

RECURSIVE PowN(_, _)
PowN(x, n) == IF n = 0 THEN <<1, 1>> ELSE FloatMul(x, PowN(x, n - 1))

(* math.Pow(x, y): exact for an integral exponent (+Inf for 0 to a         *)
(* negative power); with any other exponent the result is left as the      *)
(* term Pow(x, y).                                                          *)
Pow(x, y) ==
    IF y[2] = 1
    THEN IF y[1] >= 0 THEN PowN(x, y[1])
         ELSE IF x[1] = 0 THEN FloatInf
         ELSE FloatDiv(<<1, 1>>, PowN(x, 0 - y[1]))
    ELSE <<"Pow", x, y>>

(* The values int64(f) may take for f = +Inf, which no int64 represents:   *)
(* the result depends on the build (the minimum on amd64, the maximum on   *)
(* arm64).                                                                  *)
FloatInfToInt ==
    {WideInt(<<0, 0, 0, Limb \div 2>>),
     WideInt(<<Limb - 1, Limb - 1, Limb - 1, (Limb \div 2) - 1>>)}

(* int64(f): truncation toward zero; conv is the build's value for +Inf. *)
FloatToInt(f, conv) == IF f[2] = 0 THEN conv ELSE VMValueNewInt(IntDiv(f[1], f[2]))

OpPower(ctx, arrs, v, v2, conv) ==
    CASE v.TypeId = VMTypeInt /\ v2.TypeId = VMTypeInt ->
           Res(FloatToInt(Pow(IntToFloat(v.Value), IntToFloat(v2.Value)), conv),
               FALSE, ctx, arrs)
      [] v.TypeId = VMTypeInt /\ v2.TypeId = VMTypeFloat ->
           Res(VMValueNewFloat(Pow(IntToFloat(v.Value), v2.Value)), FALSE, ctx, arrs)
      [] v.TypeId = VMTypeFloat /\ v2.TypeId = VMTypeInt ->
           Res(VMValueNewFloat(Pow(v.Value, IntToFloat(v2.Value))), FALSE, ctx, arrs)
      [] v.TypeId = VMTypeFloat /\ v2.TypeId = VMTypeFloat ->
           Res(VMValueNewFloat(Pow(v.Value, v2.Value)), FALSE, ctx, arrs)
      [] OTHER -> Res(nil, FALSE, ctx, arrs)

boolToVMValue(b) == VMValueNewInt(IF b THEN 1 ELSE 0)

AsBool(v) ==
    CASE v.TypeId = VMTypeInt -> v.Value # 0
      [] v.TypeId = VMTypeString -> v.Value # <<>>
      [] OTHER -> FALSE

(* The operands of a comparison as floats, when both are numbers. *)
BothNumbers(v, v2) ==
    /\ v.TypeId \in {VMTypeInt, VMTypeFloat}
    /\ v2.TypeId \in {VMTypeInt, VMTypeFloat}

AsFloat(v) == IF v.TypeId = VMTypeInt THEN IntToFloat(v.Value) ELSE v.Value

OpCompLT(ctx, arrs, v, v2) ==
    IF BothNumbers(v, v2)
    THEN Res(boolToVMValue(FloatLess(AsFloat(v), AsFloat(v2))), FALSE, ctx, arrs)
    ELSE Res(nil, FALSE, ctx, arrs)

OpCompLE(ctx, arrs, v, v2) ==
    IF BothNumbers(v, v2)
    THEN Res(boolToVMValue(~FloatLess(AsFloat(v2), AsFloat(v))), FALSE, ctx, arrs)
    ELSE Res(nil, FALSE, ctx, arrs)

(* same: v and v2 are one *VMValue. *)
OpCompEQ(ctx, arrs, v, v2, same) ==
    IF same THEN Res(VMValueNewInt(1), FALSE, ctx, arrs)
    ELSE IF v.TypeId = v2.TypeId
    THEN Res(boolToVMValue(v.Value = v2.Value), FALSE, ctx, arrs)
    ELSE IF BothNumbers(v, v2)
    THEN Res(boolToVMValue(AsFloat(v) = AsFloat(v2)), FALSE, ctx, arrs)
    ELSE Res(VMValueNewInt(0), FALSE, ctx, arrs)

OpCompNE(ctx, arrs, v, v2, same) ==
    LET ret == OpCompEQ(ctx, arrs, v, v2, same).ret
    IN  Res(boolToVMValue(~AsBool(ret)), FALSE, ctx, arrs)

OpCompGE(ctx, arrs, v, v2) ==
    IF BothNumbers(v, v2)
    THEN Res(boolToVMValue(~FloatLess(AsFloat(v), AsFloat(v2))), FALSE, ctx, arrs)
    ELSE Res(nil, FALSE, ctx, arrs)

OpCompGT(ctx, arrs, v, v2) ==
    IF BothNumbers(v, v2)
    THEN Res(boolToVMValue(FloatLess(AsFloat(v2), AsFloat(v))), FALSE, ctx, arrs)
    ELSE Res(nil, FALSE, ctx, arrs)

(* The operator table, indexed from 0. *)
binOperator(op, ctx, arrs, v, v2, same, conv) ==
    CASE op = 0 -> OpAdd(ctx, arrs, v, v2)
      [] op = 1 -> OpSub(ctx, arrs, v, v2)
      [] op = 2 -> OpMultiply(ctx, arrs, v, v2)
      [] op = 3 -> OpDivide(ctx, arrs, v, v2)
      [] op = 4 -> OpModulus(ctx, arrs, v, v2)
      [] op = 5 -> OpPower(ctx, arrs, v, v2, conv)
      [] op = 6 -> OpCompLT(ctx, arrs, v, v2)
      [] op = 7 -> OpCompLE(ctx, arrs, v, v2)
      [] op = 8 -> OpCompEQ(ctx, arrs, v, v2, same)
      [] op = 9 -> OpCompNE(ctx, arrs, v, v2, same)
      [] op = 10 -> OpCompGE(ctx, arrs, v, v2)
      [] op = 11 -> OpCompGT(ctx, arrs, v, v2)

-----------------------------------------------------------------------------
(* Contexts.  code is the bytecode buffer of the context: NoCode is the nil *)
(* slice, and a compiled buffer records the expression it was compiled     *)
(* from and which compilation produced it.  stack holds the operand stack   *)
(* (top = Len(stack)).                                                     *)

NoCode == [isNil |-> TRUE, expr |-> "", run |-> 0]

(* The buffer a new context is given (make([]ByteCode, n)). *)
EmptyCode == [isNil |-> FALSE, expr |-> "", run |-> 0]

NoFlags == [IgnoreDiv0 |-> FALSE]

NewVM ==
    [Error |-> NoError, NumOpCount |-> 0, Flags |-> NoFlags, subThreadDepth |-> 0,
     currentThis |-> nil, attrs |-> NilMap, code |-> EmptyCode,
     codeIndex |-> 0, stack |-> <<>>]

-----------------------------------------------------------------------------
(* Bounds of the model *)

(* The longest array or string of the slice model. *)
MaxLen == 3

ListOf(n) == [i \in 1..n |-> VMValueNewInt(i)]

BytesOf(n) == [i \in 1..n |-> 96 + i]

Indices == (0 - MaxLen - 1)..(MaxLen + 1)

(* Values the parser may hand to GetSliceEx / SetSliceEx as a bound. *)
IndexValues ==
    {VMValueNewUndefined, VMValueNewNull, VMValueNewInt(1), VMValueNewInt(-1),
     VMValueNewInt(MaxLen + 1)}

-----------------------------------------------------------------------------
(* The host and the interpreter loop around the value operations.          *)

(* ArrayData still referenced by a value the host holds: the result array  *)
(* of an earlier call, once dropped, is garbage.                           *)
RECURSIVE MaxRef(_)
MaxRef(vs) ==
    IF vs = <<>> THEN 0
    ELSE LET m == MaxRef(Tail(vs))
             k == IF Head(vs).TypeId = VMTypeArray THEN Head(vs).Value ELSE 0
         IN  IF k > m THEN k ELSE m

Heap == SubSeq(arrays, 1, MaxRef(vals))

(* The interpreter dispatches an operation only while the context has no  *)
(* error (the loop halts on the first error), and one operation at a time. *)
Running == ctxs[1].Error = NoError

NoCall == [op |-> "none"]

(* History: for each value of vals the value it was cloned from (0 when it *)
(* is no clone) and whether a Computed had its attribute map by then.       *)
NoHist == [origin |-> <<>>]

Idle == call = NoCall

(* The effect of one value operation with result r on the root context. *)
Commit(r, c) ==
    /\ arrays' = r.arrays
    /\ ctxs' = [ctxs EXCEPT ![1] = r.ctx]
    /\ call' = c @@ [ret |-> r.ret, ok |-> r.ok, panic |-> r.panic,
                     pre |-> arrays, ctx0 |-> ctxs[1]]
    /\ UNCHANGED <<vals, computeds, functions, hist>>

(* The caller has used the result of the last call; a result array that no *)
(* held value references is dropped.                                       *)
Drop ==
    /\ Running
    /\ ~Idle
    /\ arrays' = Heap
    /\ call' = NoCall
    /\ UNCHANGED <<vals, computeds, functions, ctxs, hist>>

(* A new Run on the context clears the error of the last one. *)
NewRun ==
    /\ ~Running
    /\ ctxs' = [ctxs EXCEPT ![1].Error = NoError]
    /\ arrays' = Heap
    /\ call' = NoCall
    /\ UNCHANGED <<vals, computeds, functions, hist>>

(* The values of the slice model: vals[1] is the array that is assigned to, *)
(* from itself, from the array vals[2] or from a value that is no array.   *)
SliceTargets == DOMAIN vals

SliceSources == {1, 2, 5}

DoGetSlice ==
    /\ Running /\ Idle
    /\ \E h \in DOMAIN vals, a \in Indices, b \in Indices :
        \E r \in {GetSlice(ctxs[1], arrays, vals[h], a, b)} :
            /\ Commit(r, [op |-> "GetSlice", v |-> vals[h], a |-> a, b |-> b])

DoGetSliceEx ==
    /\ Running /\ Idle
    /\ \E h \in DOMAIN vals, a \in IndexValues, b \in IndexValues :
        \E r \in {GetSliceEx(ctxs[1], arrays, vals[h], a, b)} :
            /\ Commit(r, [op |-> "GetSliceEx", v |-> vals[h], a |-> a, b |-> b])

DoSetSlice ==
    /\ Running /\ Idle
    /\ \E h \in SliceTargets, a \in Indices, b \in Indices, g \in SliceSources :
        \E r \in {SetSlice(ctxs[1], arrays, vals[h], a, b, vals[g])} :
            /\ \A k \in DOMAIN r.arrays : Len(r.arrays[k]) <= MaxLen
            /\ Commit(r, [op |-> "SetSlice", v |-> vals[h], a |-> a, b |-> b,
                          val |-> vals[g]])

DoSetSliceEx ==
    /\ Running /\ Idle
    /\ \E h \in SliceTargets, a \in IndexValues, b \in IndexValues, g \in SliceSources :
        \E r \in {SetSliceEx(ctxs[1], arrays, vals[h], a, b, vals[g])} :
            /\ \A k \in DOMAIN r.arrays : Len(r.arrays[k]) <= MaxLen
            /\ Commit(r, [op |-> "SetSliceEx", v |-> vals[h], a |-> a, b |-> b,
                          val |-> vals[g]])

InitSlice ==
    /\ vals = <<[TypeId |-> VMTypeArray, Value |-> 1],
                [TypeId |-> VMTypeArray, Value |-> 2],
                VMValueNewStr(BytesOf(MaxLen)),
                VMValueNewStr(<<>>),
                VMValueNewInt(7)>>
    /\ \E n \in 0..MaxLen : arrays = <<ListOf(n), <<VMValueNewInt(8)>> >>
    /\ computeds = <<>>
    /\ functions = <<>>
    /\ ctxs = <<NewVM>>
    /\ hist = NoHist
    /\ call = NoCall

NextSlice ==
    \/ DoGetSlice
    \/ DoGetSliceEx
    \/ DoSetSlice
    \/ DoSetSliceEx
    \/ Drop
    \/ NewRun

SpecSlice == InitSlice /\ [][NextSlice]_vars

-----------------------------------------------------------------------------
(* Slices: what the claims say, stated without the operators above.        *)

(* An index increased by n when negative, then clamped into [0, n]. *)
Clamped(i, n) ==
    LET s == IF i < 0 THEN i + n ELSE i
    IN  IF s < 0 THEN 0 ELSE IF s > n THEN n ELSE s

SliceEnd(i, j, n) == Clamped(j, n)

SliceStart(i, j, n) ==
    IF Clamped(i, n) > Clamped(j, n) THEN Clamped(j, n) ELSE Clamped(i, n)

(* The elements of list at positions [lo, hi), positions counted from 0. *)
Range(list, lo, hi) == [k \in 1..(hi - lo) |-> list[lo + k]]

Sliceable(v) == v.TypeId = VMTypeString \/ v.TypeId = VMTypeArray

(* The elements of a String or Array value in a heap of ArrayData. *)
Elements(arrs, v) == IF v.TypeId = VMTypeString THEN v.Value ELSE arrs[v.Value]

(* C9: GetSlice(v, i, j) on a String or Array v of length n sets no error  *)
(* and returns a value of the same kind holding exactly the elements of v  *)
(* at positions [i', j'), i and j increased by n when negative, clamped    *)
(* into [0, n], and i' reset to j' when above it; every existing array is  *)
(* left as it was.  On any other kind it sets ctx.Error and returns nil.    *)
C9_GetSliceClamps ==
    call.op = "GetSlice" =>
        IF Sliceable(call.v)
        THEN LET src == Elements(call.pre, call.v)
                 n == Len(src)
             IN  /\ ctxs[1].Error = NoError
                 /\ call.ret # nil
                 /\ call.ret.TypeId = call.v.TypeId
                 /\ Elements(arrays, call.ret)
                      = Range(src, SliceStart(call.a, call.b, n), SliceEnd(call.a, call.b, n))
                 /\ \A k \in DOMAIN call.pre : arrays[k] = call.pre[k]
        ELSE /\ ctxs[1].Error # NoError
             /\ call.ret = nil
             /\ arrays = call.pre

(* A slice of an array of two or more elements taken with i = -n and       *)
(* j > n: it starts at 0, ends at n and returns the whole array.            *)
C9_Witness ==
    /\ call.op = "GetSlice"
    /\ call.v.TypeId = VMTypeArray
    /\ Len(call.pre[call.v.Value]) >= 2
    /\ call.a = 0 - Len(call.pre[call.v.Value])
    /\ call.b > Len(call.pre[call.v.Value])
    /\ call.ret # nil
    /\ arrays[call.ret.Value] = call.pre[call.v.Value]

(* The bounds SetSliceEx passes on: Undefined stands for 0 and for n. *)
BoundOf(x, default) == IF x.TypeId = VMTypeUndefined THEN default ELSE x.Value

IsBound(x) == x.TypeId = VMTypeUndefined \/ x.TypeId = VMTypeInt

(* The state after a slice assignment t[i:j] = v, as the claim has it. *)
Assigned(i, j) ==
    IF call.v.TypeId = VMTypeArray /\ call.val.TypeId = VMTypeArray
    THEN LET t == call.v.Value
             old == call.pre[t]
             src == call.pre[call.val.Value]
             n == Len(old)
             lo == SliceStart(i, j, n)
             hi == SliceEnd(i, j, n)
         IN  /\ call.ok
             /\ ctxs[1].Error = NoError
             /\ arrays[t] = Range(old, 0, lo) \o src \o Range(old, hi, n)
             /\ Len(arrays[t]) = n - (hi - lo) + Len(src)
             /\ DOMAIN arrays = DOMAIN call.pre
             /\ \A k \in DOMAIN call.pre : k # t => arrays[k] = call.pre[k]
             /\ \A h \in DOMAIN vals :
                   vals[h] = call.v =>
                       Elements(arrays, vals[h]) = Range(old, 0, lo) \o src \o Range(old, hi, n)
    ELSE /\ ~call.ok
         /\ ctxs[1].Error # NoError
         /\ arrays = call.pre

(* C10: after SetSlice(t, i, j, v) on Arrays the contents of t are          *)
(* old[0:i'] ++ v ++ old[j':n], of length n - (j' - i') + len(v), changed   *)
(* in place (no other array changes, no array is created, each value that  *)
(* references t shows the new contents), also when v is t itself; when t   *)
(* or v is no Array, ctx.Error is set, false returned and nothing changes. *)
(* SetSliceEx with Int or Undefined bounds does the same.                   *)
C10_SetSliceInPlace ==
    /\ call.op = "SetSlice" => Assigned(call.a, call.b)
    /\ (call.op = "SetSliceEx" /\ IsBound(call.a) /\ IsBound(call.b)) =>
           Assigned(BoundOf(call.a, 0),
                    BoundOf(call.b, IF call.v.TypeId = VMTypeArray
                                    THEN Len(call.pre[call.v.Value]) ELSE 0))

(* An assignment strictly inside an array: elements before i' and from j'  *)
(* on are kept around the inserted ones.                                    *)
C10_Witness ==
    /\ call.op = "SetSlice"
    /\ call.ok
    /\ call.v.TypeId = VMTypeArray
    /\ LET n == Len(call.pre[call.v.Value])
       IN  /\ 0 < SliceStart(call.a, call.b, n)
           /\ SliceStart(call.a, call.b, n) < SliceEnd(call.a, call.b, n)
           /\ SliceEnd(call.a, call.b, n) < n
    /\ Len(call.pre[call.val.Value]) >= 1
    /\ arrays[call.v.Value] # call.pre[call.v.Value]

-----------------------------------------------------------------------------
(* Clones: values are cloned and then used through any of their handles.   *)

(* The longest array of the clone model, and the most values held. *)
MaxCloneLen == 2

MaxVals == 7

CloneIndices == (0 - MaxCloneLen)..MaxCloneLen

AttrNames == {"x"}

(* The values stored by ArraySetItem and SetAttr: vals[3] is an Int. *)
StoredValues == {3}

NewComputedData(expr) == [Expr |-> expr, Attrs |-> NilMap, code |-> NoCode, codeIndex |-> 0]

(* A variant of cloning that copies the container behind the value. *)
DoCloneDeep ==
    /\ Running /\ Idle
    /\ Len(vals) < MaxVals
    /\ \E h \in DOMAIN vals :
          /\ vals' = Append(vals,
                 CASE vals[h].TypeId = VMTypeArray ->
                        [TypeId |-> VMTypeArray, Value |-> Len(arrays) + 1]
                   [] vals[h].TypeId = VMTypeComputedValue ->
                        [TypeId |-> VMTypeComputedValue, Value |-> Len(computeds) + 1]
                   [] OTHER -> Clone(vals[h]))
          /\ arrays' = IF vals[h].TypeId = VMTypeArray
                       THEN Append(arrays, arrays[vals[h].Value]) ELSE arrays
          /\ computeds' = IF vals[h].TypeId = VMTypeComputedValue
                          THEN Append(computeds, computeds[vals[h].Value]) ELSE computeds
          /\ hist' = [hist EXCEPT !.origin = Append(@,
                 [from |-> h,
                  hadMap |-> vals[h].TypeId = VMTypeComputedValue
                             /\ computeds[vals[h].Value].Attrs.present])]
    /\ UNCHANGED <<functions, ctxs, call>>

(* c = vals[h].Clone(), kept by the host. *)
DoClone ==
    /\ Running /\ Idle
    /\ Len(vals) < MaxVals
    /\ \E h \in DOMAIN vals :
          /\ vals' = Append(vals, Clone(vals[h]))
          /\ hist' = [hist EXCEPT !.origin = Append(@,
                 [from |-> h,
                  hadMap |-> vals[h].TypeId = VMTypeComputedValue
                             /\ computeds[vals[h].Value].Attrs.present])]
    /\ UNCHANGED <<arrays, computeds, functions, ctxs, call>>

DoArrayGetItem ==
    /\ Running /\ Idle
    /\ \E h \in DOMAIN vals, i \in CloneIndices :
        \E r \in {ArrayGetItem(ctxs[1], arrays, vals[h], i)} :
            Commit(r, [op |-> "ArrayGetItem", h |-> h, v |-> vals[h], index |-> i])

DoArraySetItem ==
    /\ Running /\ Idle
    /\ \E h \in DOMAIN vals, i \in CloneIndices, g \in StoredValues :
        \E r \in {ArraySetItem(ctxs[1], arrays, vals[h], i, vals[g])} :
            Commit(r, [op |-> "ArraySetItem", h |-> h, v |-> vals[h], index |-> i,
                       val |-> vals[g]])

DoSetSliceOfClone ==
    /\ Running /\ Idle
    /\ \E h \in DOMAIN vals, a \in {-1, 0, 1}, b \in {-1, 0, 1}, g \in {1, 3} :
        \E r \in {SetSlice(ctxs[1], arrays, vals[h], a, b, vals[g])} :
            /\ \A k \in DOMAIN r.arrays : Len(r.arrays[k]) <= MaxCloneLen
            /\ Commit(r, [op |-> "SetSlice", h |-> h, v |-> vals[h], a |-> a, b |-> b,
                          val |-> vals[g]])

DoSetAttr ==
    /\ Running /\ Idle
    /\ \E h \in DOMAIN vals, name \in AttrNames, g \in StoredValues :
        \E r \in {SetAttr(computeds, vals[h], name, vals[g])} :
            /\ computeds' = r.computeds
            /\ call' = [op |-> "SetAttr", h |-> h, v |-> vals[h], name |-> name,
                        val |-> vals[g], ret |-> r.ret, pre |-> arrays, ctx0 |-> ctxs[1]]
    /\ UNCHANGED <<vals, arrays, functions, ctxs, hist>>

DoGetAttr ==
    /\ Running /\ Idle
    /\ \E h \in DOMAIN vals, name \in AttrNames :
          call' = [op |-> "GetAttr", h |-> h, v |-> vals[h], name |-> name,
                   ret |-> GetAttr(ctxs[1], computeds, vals[h], name),
                   pre |-> arrays, ctx0 |-> ctxs[1]]
    /\ UNCHANGED <<vals, arrays, computeds, functions, ctxs, hist>>

InitClone ==
    /\ vals = <<[TypeId |-> VMTypeArray, Value |-> 1],
                [TypeId |-> VMTypeComputedValue, Value |-> 1],
                VMValueNewInt(7),
                VMValueNewFloat(<<1, 2>>),
                VMValueNewStr(BytesOf(2))>>
    /\ \E n \in 0..MaxCloneLen : arrays = <<ListOf(n)>>
    /\ computeds = <<NewComputedData("x+1")>>
    /\ functions = <<>>
    /\ ctxs = <<NewVM>>
    /\ hist = [origin |-> <<[from |-> 0, hadMap |-> FALSE], [from |-> 0, hadMap |-> FALSE],
                            [from |-> 0, hadMap |-> FALSE], [from |-> 0, hadMap |-> FALSE],
                            [from |-> 0, hadMap |-> FALSE]>>]
    /\ call = NoCall

NextClone ==
    \/ DoClone
    \/ DoArrayGetItem
    \/ DoArraySetItem
    \/ DoSetSliceOfClone
    \/ DoSetAttr
    \/ DoGetAttr
    \/ Drop
    \/ NewRun

SpecClone == InitClone /\ [][NextClone]_vars

-----------------------------------------------------------------------------
(* Clones: what the claim says.                                            *)

RECURSIVE RootOf(_)
RootOf(h) == IF hist.origin[h].from = 0 THEN h ELSE RootOf(hist.origin[h].from)

(* The values obtained from the same value by cloning, with that value. *)
Family(h) == {y \in DOMAIN vals : RootOf(y) = RootOf(h)}

IsContainer(v) == v.TypeId = VMTypeArray \/ v.TypeId = VMTypeComputedValue

(* C7: a clone of an Array shows the same element sequence as the value it *)
(* was cloned from after any ArraySetItem / SetSlice through either, and an *)
(* element or slice written through one value is seen through every value  *)
(* cloned from the same array; an attribute written with SetAttr through a *)
(* clone of a Computed is read back by GetAttr through the original (and    *)
(* the reverse); a clone of an Int, Float or String is another value with   *)
(* the same kind and payload.                                              *)
C7_CloneSharesContainer ==
    /\ \A h \in DOMAIN vals :
          LET g == hist.origin[h].from
          IN  g # 0 =>
                /\ vals[h].TypeId = vals[g].TypeId
                /\ vals[h].TypeId = VMTypeArray =>
                      arrays[vals[h].Value] = arrays[vals[g].Value]
                /\ vals[h].TypeId = VMTypeComputedValue =>
                      \A name \in AttrNames :
                          GetAttr(ctxs[1], computeds, vals[h], name)
                            = GetAttr(ctxs[1], computeds, vals[g], name)
                /\ ~IsContainer(vals[h]) => vals[h].Value = vals[g].Value
    /\ (call.op = "ArraySetItem" /\ call.ok) =>
          \A y \in Family(call.h) :
              LET n == Len(call.pre[call.v.Value])
                  pos == IF call.index < 0 THEN call.index + n ELSE call.index
              IN  arrays[vals[y].Value]
                    = [k \in 1..n |-> IF k = pos + 1 THEN call.val
                                      ELSE call.pre[call.v.Value][k]]
    /\ (call.op = "SetSlice" /\ call.ok) =>
          \A y \in Family(call.h) :
              LET old == call.pre[call.v.Value]
                  n == Len(old)
              IN  arrays[vals[y].Value]
                    = Range(old, 0, SliceStart(call.a, call.b, n))
                        \o call.pre[call.val.Value]
                        \o Range(old, SliceEnd(call.a, call.b, n), n)
    /\ (call.op = "SetAttr" /\ call.v.TypeId = VMTypeComputedValue) =>
          \A y \in Family(call.h) :
              GetAttr(ctxs[1], computeds, vals[y], call.name) = call.val

(* The array has been cloned and holds an element stored by ArraySetItem;  *)
(* the Computed was cloned while it had no attribute map, and the attribute *)
(* just written through the clone is read through the original.             *)
C7_Witness ==
    /\ \E c \in DOMAIN vals :
          /\ hist.origin[c].from = 1
          /\ \E k \in DOMAIN arrays[vals[c].Value] :
                arrays[vals[1].Value][k] = vals[3]
    /\ \E q \in DOMAIN vals :
          /\ hist.origin[q].from = 2
          /\ ~hist.origin[q].hadMap
          /\ call.op = "SetAttr"
          /\ call.h = q
          /\ GetAttr(ctxs[1], computeds, vals[2], call.name) = call.val

-----------------------------------------------------------------------------
(* Growth: arrays around the limit are concatenated, repeated and assigned *)
(* to.                                                                     *)

(* The model follows an array up to this many elements past ArrayLimit. *)
MaxOver == 2

Zeros(n) == [i \in 1..n |-> VMValueNewInt(0)]

(* The repeat counts of the growth model. *)
Times == {-1, 0, 1, 2, ArrayLimit, ArrayLimit + 1}

GrowIndices == {-1, 0, 1}

WithinModel(arrs) == \A k \in DOMAIN arrs : Len(arrs[k]) <= ArrayLimit + MaxOver

DoOpAdd ==
    /\ Running /\ Idle
    /\ \E h \in DOMAIN vals, g \in DOMAIN vals :
        \E r \in {OpAdd(ctxs[1], arrays, vals[h], vals[g])} :
            Commit(r, [op |-> "OpAdd", v |-> vals[h], val |-> vals[g]])

DoOpMultiply ==
    /\ Running /\ Idle
    /\ \E h \in DOMAIN vals, k \in Times, swap \in BOOLEAN :
        LET v == IF swap THEN VMValueNewInt(k) ELSE vals[h]
            v2 == IF swap THEN vals[h] ELSE VMValueNewInt(k)
        IN  \E r \in {OpMultiply(ctxs[1], arrays, v, v2)} :
                Commit(r, [op |-> "OpMultiply", v |-> v, val |-> v2])

DoSetSliceGrow ==
    /\ Running /\ Idle
    /\ \E a \in GrowIndices, b \in GrowIndices, g \in DOMAIN vals :
        \E r \in {SetSlice(ctxs[1], arrays, vals[1], a, b, vals[g])} :
            /\ WithinModel(r.arrays)
            /\ Commit(r, [op |-> "SetSlice", v |-> vals[1], a |-> a, b |-> b,
                          val |-> vals[g]])

InitGrow ==
    /\ vals = <<[TypeId |-> VMTypeArray, Value |-> 1],
                [TypeId |-> VMTypeArray, Value |-> 2],
                VMValueNewInt(2)>>
    /\ \E n \in {0, 1, ArrayLimit - 1, ArrayLimit} : arrays = <<Zeros(n), Zeros(1)>>
    /\ computeds = <<>>
    /\ functions = <<>>
    /\ ctxs = <<NewVM>>
    /\ hist = NoHist
    /\ call = NoCall

NextGrow ==
    \/ DoOpAdd
    \/ DoOpMultiply
    \/ DoSetSliceGrow
    \/ Drop
    \/ NewRun

SpecGrow == InitGrow /\ [][NextGrow]_vars

(* The length of the array a growth operation is asked for. *)
AskedLength ==
    CASE call.op = "OpAdd" /\ call.v.TypeId = VMTypeArray /\ call.val.TypeId = VMTypeArray ->
           Len(call.pre[call.v.Value]) + Len(call.pre[call.val.Value])
      [] call.op = "OpMultiply" /\ call.v.TypeId = VMTypeArray /\ call.val.TypeId = VMTypeInt ->
           Len(call.pre[call.v.Value]) * call.val.Value
      [] call.op = "OpMultiply" /\ call.v.TypeId = VMTypeInt /\ call.val.TypeId = VMTypeArray ->
           Len(call.pre[call.val.Value]) * call.v.Value
      [] call.op = "SetSlice" /\ call.v.TypeId = VMTypeArray /\ call.val.TypeId = VMTypeArray ->
           LET n == Len(call.pre[call.v.Value])
           IN  n - (SliceEnd(call.a, call.b, n) - SliceStart(call.a, call.b, n))
                 + Len(call.pre[call.val.Value])
      [] OTHER -> 0

(* C1: every array that exists has at most 512 elements, and a growth      *)
(* operation (OpAdd, OpMultiply / ArrayRepeatTimesEx, SetSlice) asked for a *)
(* longer one sets ctx.Error and leaves the arrays as they were.            *)
C1_ArraysWithinLimit ==
    /\ \A k \in DOMAIN arrays : Len(arrays[k]) <= ArrayLimit
    /\ AskedLength > ArrayLimit => (ctxs[1].Error # NoError /\ arrays = call.pre)

-----------------------------------------------------------------------------
(* Operators: a binary operator is applied to a pair of operands.          *)

(* Int operands range over -MaxOperand..MaxOperand, Float operands over    *)
(* the halves in the same range.                                           *)
MaxOperand == 2

Operands ==
    {VMValueNewInt(i) : i \in (0 - MaxOperand)..MaxOperand}
      \cup {VMValueNewFloat(Frac(i, 2)) : i \in (0 - 2 * MaxOperand)..(2 * MaxOperand)}
      \cup {VMValueNewStr(BytesOf(1)), VMValueNewUndefined, VMValueNewNull}

DoOpDivide ==
    /\ Running /\ Idle
    /\ \E r \in {OpDivide(ctxs[1], arrays, vals[1], vals[2])} :
          Commit(r, [op |-> "OpDivide", v |-> vals[1], val |-> vals[2]])

InitOps ==
    /\ \E v \in Operands, v2 \in Operands : vals = <<v, v2>>
    /\ arrays = <<>>
    /\ computeds = <<>>
    /\ functions = <<>>
    /\ \E f \in BOOLEAN : ctxs = <<[NewVM EXCEPT !.Flags.IgnoreDiv0 = f]>>
    /\ hist = NoHist
    /\ call = NoCall

NextOps ==
    \/ DoOpDivide
    \/ Drop
    \/ NewRun

SpecOps == InitOps /\ [][NextOps]_vars

IsNumber(v) == v.TypeId = VMTypeInt \/ v.TypeId = VMTypeFloat

(* A numeric value that is exactly zero: Int 0 or Float 0. *)
IsZero(v) ==
    \/ v.TypeId = VMTypeInt /\ v.Value = 0
    \/ v.TypeId = VMTypeFloat /\ v.Value = <<0, 1>>

(* C8: OpDivide on numeric operands with a divisor that is exactly zero     *)
(* sets ctx.Error and returns nil when IgnoreDiv0 is not set, and sets no   *)
(* error and returns Undefined when it is; with a nonzero divisor it sets   *)
(* no error.                                                               *)
C8_DivideByZero ==
    (call.op = "OpDivide" /\ IsNumber(call.v) /\ IsNumber(call.val)) =>
        IF IsZero(call.val)
        THEN IF call.ctx0.Flags.IgnoreDiv0
             THEN ctxs[1].Error = NoError /\ call.ret = VMValueNewUndefined
             ELSE ctxs[1].Error # NoError /\ call.ret = nil
        ELSE ctxs[1].Error = NoError

-----------------------------------------------------------------------------
(* Sub-evaluation: ComputedExecute, FuncInvoke and FuncInvokeNative.  The  *)
(* call of vm.Run / vm.parser.Evaluate inside ComputedExecute / FuncInvoke  *)
(* runs the interpreter on the child context vm, which may itself call      *)
(* ComputedExecute / FuncInvoke: the child is pushed on ctxs when the call  *)
(* starts (Enter), runs (Child...), and is popped when the interpreter      *)
(* returns and the call finishes (Exit).  hist.frames[k] holds, for the     *)
(* call that created ctxs[k], its branch (compile or cached), its           *)
(* arguments and the state of the cache when it started.                    *)

ComputedTax == 200

FuncTax == 100

(* The model follows NumOpCount up to MaxCount, a child for MaxChildSteps   *)
(* steps, and calls with up to MaxArgs arguments.                           *)
MaxCount == 350

MaxChildSteps == 1

MaxArgs == 2

(* Each value is called up to MaxCalls times, the native function up to    *)
(* MaxNativeCalls times.                                                    *)
MaxCalls == 2

MaxNativeCalls == 1

(* The native functions of the host: NativeFunctionData is never changed. *)
Natives == <<[Name |-> "nf", Params |-> <<"a", "b">>]>>

(* An expression the parser rejects. *)
ParseFails(expr) == expr = "1+"

ArgsOf(n) == [i \in 1..n |-> VMValueNewInt(i)]

Top == Len(ctxs)

TopRunning == ctxs[Top].Error = NoError

(* ComputedExecute, up to the test of cd.code: the child context. *)
ComputedChild(ctx, v) ==
    [NewVM EXCEPT !.Flags = ctx.Flags,
                  !.subThreadDepth = ctx.subThreadDepth + 1,
                  !.currentThis = v,
                  !.NumOpCount = ctx.NumOpCount + ComputedTax]

RECURSIVE PutAll(_, _, _)
PutAll(m, names, params) ==
    IF names = <<>> THEN m
    ELSE PutAll(MapPut(m, Head(names), Head(params)), Tail(names), Tail(params))

(* A variant that rejects only a call with too few arguments. *)
ParamsMismatchTooFew(cd, params) == Len(params) < Len(cd.Params)

(* len(cd.Params) != len(params) *)
ParamsMismatch(cd, params) == Len(cd.Params) # Len(params)

(* A variant that starts the child's operation count afresh. *)
FuncChildFreshCount(ctx, v, cd, params) ==
    [NewVM EXCEPT !.attrs = PutAll(NewValueMap, cd.Params, params),
                  !.Flags = ctx.Flags,
                  !.subThreadDepth = ctx.subThreadDepth + 1,
                  !.currentThis = v,
                  !.NumOpCount = FuncTax]

(* FuncInvoke, after the arity check and up to the test of cd.code. *)
FuncChild(ctx, v, cd, params) ==
    [NewVM EXCEPT !.attrs = PutAll(NewValueMap, cd.Params, params),
                  !.Flags = ctx.Flags,
                  !.subThreadDepth = ctx.subThreadDepth + 1,
                  !.currentThis = v,
                  !.NumOpCount = ctx.NumOpCount + FuncTax]

(* vm.Run(expr): the parser compiles expr into a new buffer, or fails and   *)
(* sets vm.Error; the bytecode then runs (the Child... actions).            *)
Run(vm, expr, run) ==
    IF ParseFails(expr)
    THEN SetError(vm, ErrParse)
    ELSE [vm EXCEPT !.code = [isNil |-> FALSE, expr |-> expr, run |-> run],
                    !.codeIndex = 1]

(* The branch on cd.code: compile and cache, or load the cached bytecode. *)
StartChild(vm, cd, run) ==
    IF cd.code.isNil
    THEN Run(vm, cd.Expr, run)
    ELSE [vm EXCEPT !.code = cd.code, !.codeIndex = cd.codeIndex]

(* A variant that reports a failure of the child as a parse error. *)
ComputedExecuteReturnParseError(ctx, vm) ==
    IF vm.Error # NoError
    THEN [ctx |-> SetError(ctx, ErrParse), ret |-> nil]
    ELSE [ctx |-> [ctx EXCEPT !.NumOpCount = vm.NumOpCount],
          ret |-> IF Len(vm.stack) # 0 THEN Clone(vm.stack[Len(vm.stack)])
                  ELSE VMValueNewUndefined]

(* ComputedExecute, after the child has terminated. *)
ComputedExecuteReturn(ctx, vm) ==
    IF vm.Error # NoError
    THEN [ctx |-> SetError(ctx, vm.Error), ret |-> nil]
    ELSE [ctx |-> [ctx EXCEPT !.NumOpCount = vm.NumOpCount],
          ret |-> IF Len(vm.stack) # 0 THEN Clone(vm.stack[Len(vm.stack)])
                  ELSE VMValueNewUndefined]

(* FuncInvoke, after the child has terminated. *)
FuncInvokeReturn(ctx, vm) ==
    IF vm.Error # NoError
    THEN [ctx |-> SetError(ctx, vm.Error), ret |-> nil]
    ELSE [ctx |-> [ctx EXCEPT !.NumOpCount = vm.NumOpCount],
          ret |-> IF Len(vm.stack) # 0 THEN Clone(vm.stack[Len(vm.stack)])
                  ELSE VMValueNewUndefined]

(* The first part of a call that creates a child. *)
Enter(h, params, vm, cd, isFunc) ==
    /\ hist.calls[h] < MaxCalls
    /\ ctxs' = Append(ctxs, StartChild(vm, cd, hist.runs + 1))
    /\ hist' = [hist EXCEPT
                   !.frames = Append(@, [h |-> h, nargs |-> Len(params),
                                         path |-> IF cd.code.isNil THEN "compile" ELSE "cached",
                                         ordinal |-> hist.calls[h] + 1,
                                         code0 |-> cd.code,
                                         steps |-> 0]),
                   !.calls[h] = @ + 1,
                   !.compiles[h] = IF cd.code.isNil THEN @ + 1 ELSE @,
                   !.runs = IF cd.code.isNil THEN @ + 1 ELSE @]
    /\ UNCHANGED <<vals, arrays, computeds, functions, call>>

ComputedExecuteEnter ==
    /\ TopRunning /\ Idle
    /\ \E h \in DOMAIN vals :
          /\ vals[h].TypeId = VMTypeComputedValue
          /\ ctxs[Top].NumOpCount + ComputedTax <= MaxCount
          /\ Enter(h, <<>>, ComputedChild(ctxs[Top], vals[h]), computeds[vals[h].Value], FALSE)

(* FuncInvoke: rejected for arity, or up to the start of the child. *)
FuncInvokeEnter ==
    /\ TopRunning /\ Idle
    /\ \E h \in DOMAIN vals, n \in 0..MaxArgs :
          /\ vals[h].TypeId = VMTypeFunction
          /\ LET cd == functions[vals[h].Value]
             IN  IF ParamsMismatch(cd, ArgsOf(n))
                 THEN /\ ctxs' = [ctxs EXCEPT ![Top] = SetError(@, ErrArity)]
                      /\ call' = [op |-> "FuncInvoke", h |-> h, nargs |-> n,
                                  entered |-> FALSE, ret |-> nil,
                                  ctx0 |-> ctxs[Top], ctxs0 |-> ctxs, hist0 |-> hist,
                                  functions0 |-> functions]
                      /\ UNCHANGED <<vals, arrays, computeds, functions, hist>>
                 ELSE /\ ctxs[Top].NumOpCount + FuncTax <= MaxCount
                      /\ Enter(h, ArgsOf(n), FuncChild(ctxs[Top], vals[h], cd, ArgsOf(n)),
                               cd, TRUE)

(* A counted operation of the running child. *)
ChildOp ==
    /\ Top > 1 /\ TopRunning /\ Idle
    /\ hist.frames[Top].steps < MaxChildSteps
    /\ ctxs' = [ctxs EXCEPT ![Top].NumOpCount = @ + 1]
    /\ hist' = [hist EXCEPT !.frames[Top].steps = @ + 1]
    /\ UNCHANGED <<vals, arrays, computeds, functions, call>>

(* The running child pushes a value. *)
ChildPush ==
    /\ Top > 1 /\ TopRunning /\ Idle
    /\ hist.frames[Top].steps < MaxChildSteps
    /\ ctxs' = [ctxs EXCEPT ![Top].stack = Append(@, VMValueNewInt(5))]
    /\ hist' = [hist EXCEPT !.frames[Top].steps = @ + 1]
    /\ UNCHANGED <<vals, arrays, computeds, functions, call>>

(* An operation of the running child fails. *)
ChildFail ==
    /\ Top > 1 /\ TopRunning /\ Idle
    /\ \E err \in {ErrDivideZero, ErrGetIndex} :
          ctxs' = [ctxs EXCEPT ![Top] = SetError(@, err)]
    /\ UNCHANGED <<vals, arrays, computeds, functions, hist, call>>

(* The interpreter of the child returns; the call caches the bytecode it   *)
(* compiled and hands the child's result to the calling context.            *)
Exit ==
    /\ Top > 1 /\ Idle
    /\ LET vm == ctxs[Top]
           fr == hist.frames[Top]
           v == vals[fr.h]
           isFunc == v.TypeId = VMTypeFunction
           r == IF isFunc THEN FuncInvokeReturn(ctxs[Top - 1], vm)
                ELSE ComputedExecuteReturn(ctxs[Top - 1], vm)
       IN  /\ ctxs' = [SubSeq(ctxs, 1, Top - 1) EXCEPT ![Top - 1] = r.ctx]
           /\ computeds' = IF ~isFunc /\ fr.path = "compile"
                           THEN [computeds EXCEPT ![v.Value].code = vm.code,
                                                  ![v.Value].codeIndex = vm.codeIndex]
                           ELSE computeds
           /\ functions' = IF isFunc /\ fr.path = "compile"
                           THEN [functions EXCEPT ![v.Value].code = vm.code,
                                                  ![v.Value].codeIndex = vm.codeIndex]
                           ELSE functions
           /\ hist' = [hist EXCEPT !.frames = SubSeq(@, 1, Top - 1)]
           /\ call' = [op |-> IF isFunc THEN "FuncInvoke" ELSE "ComputedExecute",
                       h |-> fr.h, nargs |-> fr.nargs, entered |-> TRUE,
                       path |-> fr.path, ordinal |-> fr.ordinal, code0 |-> fr.code0,
                       child |-> vm, ret |-> r.ret, ctx0 |-> ctxs[Top - 1],
                       tax |-> IF isFunc THEN FuncTax ELSE ComputedTax]
    /\ UNCHANGED <<vals, arrays>>

(* FuncInvokeNative: the arity check, then the host's callback, which may   *)
(* return a value or nil and may set ctx.Error.                             *)
FuncInvokeNative ==
    /\ TopRunning /\ Idle
    /\ \E h \in DOMAIN vals, n \in 0..MaxArgs :
          /\ vals[h].TypeId = VMTypeNativeFunction
          /\ LET cd == Natives[vals[h].Value]
             IN  IF ParamsMismatch(cd, ArgsOf(n))
                 THEN /\ ctxs' = [ctxs EXCEPT ![Top] = SetError(@, ErrArity)]
                      /\ call' = [op |-> "FuncInvokeNative", h |-> h, nargs |-> n,
                                  entered |-> FALSE, ret |-> nil,
                                  ctx0 |-> ctxs[Top], ctxs0 |-> ctxs, hist0 |-> hist,
                                  functions0 |-> functions]
                      /\ hist' = hist
                 ELSE \E ret \in {nil, VMValueNewInt(5)}, err \in {NoError, ErrNative} :
                      /\ hist.nativeCalls < MaxNativeCalls
                      /\ ctxs' = [ctxs EXCEPT ![Top].Error = err]
                      /\ call' = [op |-> "FuncInvokeNative", h |-> h, nargs |-> n,
                                  entered |-> TRUE,
                                  ret |-> IF err # NoError THEN nil
                                          ELSE IF ret = nil THEN VMValueNewUndefined
                                          ELSE ret,
                                  ctx0 |-> ctxs[Top], ctxs0 |-> ctxs, hist0 |-> hist,
                                  functions0 |-> functions]
                      /\ hist' = [hist EXCEPT !.nativeCalls = @ + 1]
    /\ UNCHANGED <<vals, arrays, computeds, functions>>

InitSub ==
    /\ vals = <<[TypeId |-> VMTypeComputedValue, Value |-> 1],
                [TypeId |-> VMTypeComputedValue, Value |-> 2],
                [TypeId |-> VMTypeFunction, Value |-> 1],
                [TypeId |-> VMTypeNativeFunction, Value |-> 1]>>
    /\ arrays = <<>>
    /\ computeds = <<NewComputedData("x+1"), NewComputedData("1+")>>
    /\ functions = <<[Expr |-> "f(a)", Name |-> "f", Params |-> <<"a">>,
                      code |-> NoCode, codeIndex |-> 0]>>
    /\ ctxs = <<NewVM>>
    /\ hist = [origin |-> <<>>,
               frames |-> <<[h |-> 0, nargs |-> 0, path |-> "root", ordinal |-> 0,
                             code0 |-> NoCode, steps |-> 0]>>,
               calls |-> <<0, 0, 0, 0>>,
               compiles |-> <<0, 0, 0, 0>>,
               runs |-> 0,
               nativeCalls |-> 0]
    /\ call = NoCall

NextSub ==
    \/ ComputedExecuteEnter
    \/ FuncInvokeEnter
    \/ FuncInvokeNative
    \/ ChildOp
    \/ ChildPush
    \/ ChildFail
    \/ Exit
    \/ Drop
    \/ NewRun

SpecSub == InitSub /\ [][NextSub]_vars

(* A call of ComputedExecute or FuncInvoke that created a child has just   *)
(* finished; the calling context is again the top of ctxs.                  *)
SubCallDone == call.op \in {"ComputedExecute", "FuncInvoke"} /\ call.entered

(* C2: when the child context of ComputedExecute or FuncInvoke terminates   *)
(* with an error, the calling context's Error is that same error and the    *)
(* call returns nil, whether the call compiled the expression or ran the    *)
(* cached bytecode.                                                         *)
C2_ChildErrorPropagates ==
    (SubCallDone /\ call.child.Error # NoError)
        => /\ ctxs[Top].Error = call.child.Error
           /\ call.ret = nil

(* A nested FuncInvoke on the cached bytecode whose child failed. *)
C2_Witness ==
    /\ SubCallDone
    /\ call.op = "FuncInvoke"
    /\ call.path = "cached"
    /\ call.child.Error = ErrGetIndex
    /\ Top > 1
    /\ ctxs[Top].Error = ErrGetIndex
    /\ call.ret = nil

(* C3: for every Computed and every Function value only the first call      *)
(* compiles the expression; the second and every later call runs the        *)
(* bytecode cached by the first call and does not replace the cache.        *)
C3_OnlyFirstCallCompiles ==
    /\ \A h \in DOMAIN vals : hist.compiles[h] <= 1
    /\ \A k \in 2..Top :
          hist.frames[k].ordinal >= 2
              => /\ hist.frames[k].path = "cached"
                 /\ ~hist.frames[k].code0.isNil
    /\ (SubCallDone /\ call.ordinal >= 2)
          => /\ call.path = "cached"
             /\ call.child.code = call.code0
             /\ LET v == vals[call.h]
                IN  IF v.TypeId = VMTypeFunction
                    THEN functions[v.Value].code = call.code0
                    ELSE computeds[v.Value].code = call.code0

(* C4: no step decreases the NumOpCount of a context, through successful,   *)
(* failing and rejected calls of ComputedExecute, FuncInvoke and            *)
(* FuncInvokeNative at any depth.                                           *)
C4_NumOpCountNeverDecreases ==
    [][\A k \in 1..Len(ctxs) :
          k <= Len(ctxs') => ctxs'[k].NumOpCount >= ctxs[k].NumOpCount]_vars

(* A nested call has written a larger count back into its caller. *)
C4_Witness ==
    /\ SubCallDone
    /\ call.child.Error = NoError
    /\ Top > 1
    /\ ctxs[Top].NumOpCount > call.ctx0.NumOpCount + call.tax

(* C5: after every call of ComputedExecute or FuncInvoke that created a     *)
(* child, the caller's NumOpCount is the child's final count and is at      *)
(* least the child's count on entry (the caller's count plus the tax)       *)
(* plus one.                                                                *)
C5_WritebackAboveEntry ==
    SubCallDone
        => /\ ctxs[Top].NumOpCount = call.child.NumOpCount
           /\ ctxs[Top].NumOpCount >= call.ctx0.NumOpCount + call.tax + 1

ParamsOf(h) ==
    IF vals[h].TypeId = VMTypeFunction THEN functions[vals[h].Value].Params
    ELSE Natives[vals[h].Value].Params

(* C6: FuncInvoke and FuncInvokeNative called with a number of arguments    *)
(* other than the number of parameters set ctx.Error and return nil; no     *)
(* child context and no callback runs, nothing is compiled or cached, and   *)
(* NumOpCount is unchanged.                                                 *)
C6_ArityMismatchRejected ==
    (/\ call.op \in {"FuncInvoke", "FuncInvokeNative"}
     /\ call.nargs # Len(ParamsOf(call.h)))
        => /\ ~call.entered
           /\ call.ret = nil
           /\ ctxs = [call.ctxs0 EXCEPT ![Top].Error = ErrArity]
           /\ ctxs[Top].NumOpCount = call.ctx0.NumOpCount
           /\ hist = call.hist0
           /\ functions = call.functions0

(* A FuncInvoke with too many arguments, rejected inside a running child. *)
C6_Witness ==
    /\ call.op = "FuncInvoke"
    /\ call.nargs > Len(ParamsOf(call.h))
    /\ Top > 1
    /\ ctxs[Top].Error = ErrArity
    /\ ctxs[Top].NumOpCount > 0

-----------------------------------------------------------------------------
(* Indexing: ArrayGetItem and ArraySetItem on the values of the slice      *)
(* model, with every index from -(MaxLen + 1) to MaxLen + 1.                *)

(* The right-hand values of a[i] = x: the array itself, and an Int. *)
ItemSources == {1, 5}

IndexGetItem ==
    /\ Running /\ Idle
    /\ \E h \in DOMAIN vals, i \in Indices :
        \E r \in {ArrayGetItem(ctxs[1], arrays, vals[h], i)} :
            Commit(r, [op |-> "ArrayGetItem", h |-> h, v |-> vals[h], index |-> i])

IndexSetItem ==
    /\ Running /\ Idle
    /\ \E h \in DOMAIN vals, i \in Indices, g \in ItemSources :
        \E r \in {ArraySetItem(ctxs[1], arrays, vals[h], i, vals[g])} :
            Commit(r, [op |-> "ArraySetItem", h |-> h, v |-> vals[h], index |-> i,
                       val |-> vals[g]])

NextIndex ==
    \/ IndexGetItem
    \/ IndexSetItem
    \/ Drop
    \/ NewRun

SpecIndex == InitSlice /\ [][NextIndex]_vars

(* The position an in-range index i names in an array of n elements. *)
PositionOf(i, n) == IF i >= 0 THEN i ELSE i + n

(* C11: on an Array of n elements with -n <= i < n, ArrayGetItem returns    *)
(* the element at i (i >= 0) or i + n (i < 0) without error and             *)
(* ArraySetItem replaces exactly that element by a clone of the value;      *)
(* with i outside [-n, n) both set ctx.Error, return nil / false and        *)
(* change nothing; on a receiver that is no Array both set ctx.Error.       *)
C11_IndexWrapsOnce ==
    call.op \in {"ArrayGetItem", "ArraySetItem"} =>
        IF call.v.TypeId # VMTypeArray
        THEN /\ ctxs[1].Error = ErrNotIndexable
             /\ call.ret = nil /\ ~call.ok
             /\ arrays = call.pre
        ELSE LET n == Len(call.pre[call.v.Value])
                 i == call.index
                 p == PositionOf(i, n)
             IN  IF 0 - n <= i /\ i < n
                 THEN /\ ctxs[1].Error = NoError
                      /\ ~call.panic
                      /\ IF call.op = "ArrayGetItem"
                         THEN /\ call.ret = call.pre[call.v.Value][p + 1]
                              /\ arrays = call.pre
                         ELSE /\ call.ok
                              /\ arrays = [call.pre EXCEPT ![call.v.Value][p + 1] =
                                              [TypeId |-> call.val.TypeId,
                                               Value |-> call.val.Value]]
                 ELSE /\ ctxs[1].Error = ErrGetIndex
                      /\ call.ret = nil /\ ~call.ok
                      /\ arrays = call.pre

(* A negative index replaced the last-but-one element of a longer array. *)
C11_Witness ==
    /\ call.op = "ArraySetItem"
    /\ call.v.TypeId = VMTypeArray
    /\ call.index = -2
    /\ Len(call.pre[call.v.Value]) = MaxLen
    /\ call.ok
    /\ arrays[call.v.Value][MaxLen - 1] = call.val
    /\ arrays # call.pre

-----------------------------------------------------------------------------
(* Repetition: a * k and k * a on the arrays of the slice model, for       *)
(* counts k >= 0 over the whole int64 range.                                *)

RepeatTargets == {1, 2}

(* 2^32, 2^62, (2^64 + 2) / 3 and 2^63 - 1. *)
WideCounts ==
    {<<0, 0, 1, 0>>, <<0, 0, 0, 16384>>, <<21846, 21845, 21845, 21845>>,
     <<65535, 65535, 65535, 32767>>}

(* Counts around the limit for each length up to MaxLen + 1. *)
RepeatCounts ==
    {VMValueNewInt(k) : k \in (0..MaxLen) \cup
                              {ArrayLimit \div n : n \in 1..(MaxLen + 1)} \cup
                              {(ArrayLimit \div n) + 1 : n \in 1..(MaxLen + 1)}}
      \cup {WideInt(l) : l \in WideCounts}

RepeatArray ==
    /\ Running /\ Idle
    /\ \E h \in RepeatTargets, k \in RepeatCounts, swap \in BOOLEAN :
        LET v == IF swap THEN k ELSE vals[h]
            v2 == IF swap THEN vals[h] ELSE k
        IN  \E r \in {OpMultiply(ctxs[1], arrays, v, v2)} :
                Commit(r, [op |-> "OpMultiply", a |-> vals[h], k |-> k, swap |-> swap])

NextRepeat ==
    \/ RepeatArray
    \/ Drop
    \/ NewRun

SpecRepeat == InitSlice /\ [][NextRepeat]_vars

(* n * k <= c for a length n and an int64 count k >= 0 in limbs. *)
ProductWithin(n, k, c) ==
    \/ n = 0
    \/ /\ k[4] = 0 /\ k[3] = 0 /\ k[2] = 0
       /\ n * k[1] <= c

(* C12: for an array a and an int64 k >= 0, a * k and k * a return a new    *)
(* array of a.length * k elements, the element at p a clone of              *)
(* a[p mod a.length], when a.length * k <= 512, and otherwise set           *)
(* ctx.Error and return nil; a is unchanged in every case.                  *)
C12_RepeatLength ==
    call.op = "OpMultiply" =>
        LET a == call.pre[call.a.Value]
            n == Len(a)
            k == ReadInt(call.k)
        IN  /\ ~call.panic
            /\ \A j \in DOMAIN call.pre : arrays[j] = call.pre[j]
            /\ IF ProductWithin(n, k, ArrayLimit)
               THEN /\ ctxs[1].Error = NoError
                    /\ call.ret = [TypeId |-> VMTypeArray, Value |-> Len(call.pre) + 1]
                    /\ Len(arrays) = Len(call.pre) + 1
                    /\ Len(arrays[Len(arrays)]) = n * k[1]
                    /\ \A p \in 0..(n * k[1] - 1) :
                          arrays[Len(arrays)][p + 1] = a[(p % n) + 1]
               ELSE /\ ctxs[1].Error = ErrArrayTooLong
                    /\ call.ret = nil
                    /\ arrays = call.pre

-----------------------------------------------------------------------------
(* The operator table: each of the twelve operators on every pair of       *)
(* operands, of every kind.                                                 *)

BinOperands ==
    Operands \cup
      {VMValueNewStr(<<>>),
       [TypeId |-> VMTypeArray, Value |-> 1],
       [TypeId |-> VMTypeArray, Value |-> 2],
       [TypeId |-> VMTypeComputedValue, Value |-> 1],
       [TypeId |-> VMTypeFunction, Value |-> 1],
       [TypeId |-> VMTypeNativeFunction, Value |-> 1]}

ApplyBinOperator ==
    /\ Running /\ Idle
    /\ \E op \in 0..11, h \in DOMAIN vals, g \in DOMAIN vals, conv \in FloatInfToInt :
        \E r \in {binOperator(op, ctxs[1], arrays, vals[h], vals[g], h = g, conv)} :
            Commit(r, [op |-> "binOperator", index |-> op, v |-> vals[h], val |-> vals[g]])

InitBinOp ==
    /\ \E v \in BinOperands, v2 \in BinOperands : vals = <<v, v2>>
    /\ arrays = <<<<>>, ListOf(2)>>
    /\ computeds = <<NewComputedData("x+1")>>
    /\ functions = <<[Expr |-> "f(a)", Name |-> "f", Params |-> <<"a">>,
                      code |-> NoCode, codeIndex |-> 0]>>
    /\ ctxs = <<NewVM>>
    /\ hist = NoHist
    /\ call = NoCall

NextBinOp ==
    \/ ApplyBinOperator
    \/ Drop
    \/ NewRun

SpecBinOp == InitBinOp /\ [][NextBinOp]_vars

(* C13: each of the twelve binary operators, on operands of any kinds,      *)
(* returns a value, or returns nil without error, or sets ctx.Error and     *)
(* returns nil; it never panics.                                            *)
C13_OperatorsNeverPanic ==
    call.op = "binOperator" =>
        /\ ~call.panic
        /\ ctxs[1].Error # NoError => call.ret = nil

====
